---------------------------- MODULE Spec2Model ----------------------------
(***************************************************************************)
(* A model of src/main.py: the sentiment lexicon (SentimentMap), the       *)
(* region grid (AreaMap), the record loaders (TwitterData), the per-record *)
(* pipeline (TwitterPostFactory.produce with area_mapper and               *)
(* sentiment_reducer) and the aggregation loop of __main__.                *)
(*                                                                         *)
(* A Python str is a sequence of one-character strings; a dict whose       *)
(* order matters (AreaMap.map) is a sequence of entries in insertion       *)
(* order; a dict whose order does not matter (SentimentMap.map, result)    *)
(* is a function.  json.loads is outside the model: a grid and a document  *)
(* are taken as the values json.loads returns.                             *)
(***************************************************************************)
EXTENDS Integers, Sequences, FiniteSets, TLC

VARIABLES
    lexSrc,     \* the lexicon source text (AFINN.txt / data_str)
    gridSrc,    \* json_data["features"] of the grid: a sequence of features
    doc,        \* json_data["rows"] of the posts: the value of each row
    mode,       \* which loader of TwitterData the driver calls
    sentiment,  \* SentimentMap: [loaded, map]
    area,       \* AreaMap: [loaded, map]
    tw,         \* TwitterData: [data, len, massive_file]
    fileOpen,   \* whether the handle f of load_from_file_massive is open
    factory,    \* TwitterPostFactory: [text_mappers, text_filters]
    result,     \* the dict result of __main__: [live, totals]
    pos,        \* how many items the for loop has taken from tw.data
    lastIn,     \* the argument of the last call of produce / area_mapper / sentiment_reducer
    lastOut,    \* what that call returned or raised
    pc,         \* the driver's position
    err         \* the exception that ended the run ("" while none)

vars == <<lexSrc, gridSrc, doc, mode, sentiment, area, tw, fileOpen, factory,
          result, pos, lastIn, lastOut, pc, err>>

---------------------------------------------------------------------------
(* Bounds of the model *)

MaxRecords == 3     \* rows of a document
MaxRegions == 2     \* features of a grid
GridMax == 2        \* coordinates and box bounds range over 0..GridMax
MaxTextLen == 3     \* characters of a record's text
MaxLexLen == 5      \* characters of a lexicon source
MaxStages == 3      \* mappers plus filters registered on a factory

---------------------------------------------------------------------------
(* Characters and strings *)

TAB == "\t"
NL == "\n"
SP == " "

RECURSIVE SumSeq(_)
SumSeq(s) == IF s = <<>> THEN 0 ELSE Head(s) + SumSeq(Tail(s))

\* All strings over alphabet A of length at most n.
StringsUpTo(A, n) == UNION {[1..k -> A] : k \in 0..n}

\* str.split(sep) with an explicit one-character separator: one field more
\* than there are separators, empty fields kept.
RECURSIVE SplitFrom(_, _, _)
SplitFrom(s, sep, cur) ==
    IF s = <<>> THEN <<cur>>
    ELSE IF Head(s) = sep THEN <<cur>> \o SplitFrom(Tail(s), sep, <<>>)
    ELSE SplitFrom(Tail(s), sep, Append(cur, Head(s)))

Split(s, sep) == SplitFrom(s, sep, <<>>)

\* str.lower() and str.upper() on the letters of the model's alphabets.
LowerChar(c) == IF c = "G" THEN "g" ELSE IF c = "B" THEN "b" ELSE c
UpperChar(c) == IF c = "g" THEN "G" ELSE IF c = "b" THEN "B" ELSE c
Lower(s) == [i \in 1..Len(s) |-> LowerChar(s[i])]
Upper(s) == [i \in 1..Len(s) |-> UpperChar(s[i])]

\* str.rstrip(chars): drop the trailing characters that are in chars.
RECURSIVE Rstrip(_, _)
Rstrip(s, chars) ==
    IF s # <<>> /\ s[Len(s)] \in chars THEN Rstrip(SubSeq(s, 1, Len(s) - 1), chars)
    ELSE s

RECURSIVE Lstrip(_, _)
Lstrip(s, chars) ==
    IF s # <<>> /\ Head(s) \in chars THEN Lstrip(Tail(s), chars) ELSE s

\* int(str): surrounding whitespace dropped, an optional sign, then decimal
\* digits with single underscores between digits.  [ok, val].
Whitespace == {SP, TAB, NL, "\r"}
DigitVal == [c \in {"0", "1", "2", "3", "4", "5", "6", "7", "8", "9"} |->
               CASE c = "0" -> 0 [] c = "1" -> 1 [] c = "2" -> 2 [] c = "3" -> 3
                 [] c = "4" -> 4 [] c = "5" -> 5 [] c = "6" -> 6 [] c = "7" -> 7
                 [] c = "8" -> 8 [] c = "9" -> 9]

DigitsOk(s) ==
    /\ s # <<>>
    /\ \A i \in 1..Len(s) : s[i] \in DOMAIN DigitVal \cup {"_"}
    /\ s[1] # "_" /\ s[Len(s)] # "_"
    /\ \A i \in 1..(Len(s) - 1) : ~(s[i] = "_" /\ s[i + 1] = "_")

RECURSIVE DigitsValue(_, _)
DigitsValue(s, acc) ==
    IF s = <<>> THEN acc
    ELSE IF Head(s) = "_" THEN DigitsValue(Tail(s), acc)
    ELSE DigitsValue(Tail(s), 10 * acc + DigitVal[Head(s)])

PyInt(w) ==
    LET t == Rstrip(Lstrip(w, Whitespace), Whitespace)
        signed == t # <<>> /\ Head(t) \in {"-", "+"}
        digits == IF signed THEN Tail(t) ELSE t
    IN  IF DigitsOk(digits)
        THEN [ok |-> TRUE,
              val |-> IF signed /\ Head(t) = "-" THEN 0 - DigitsValue(digits, 0)
                      ELSE DigitsValue(digits, 0)]
        ELSE [ok |-> FALSE, val |-> 0]

---------------------------------------------------------------------------
(* SentimentMap *)

\* The rows of load_from_string: data_str.split("\n"), each split on "\t".
LexRows(data_str) ==
    LET lines == Split(data_str, NL)
    IN  [i \in 1..Len(lines) |-> Split(lines[i], TAB)]

\* dict(data): ValueError unless every element has length 2; a later row of
\* the same key replaces the earlier one.
DictOfRows(data) ==
    IF \E i \in 1..Len(data) : Len(data[i]) # 2
    THEN [ok |-> FALSE, map |-> [k \in {} |-> <<>>]]
    ELSE [ok |-> TRUE,
          map |-> [k \in {data[i][1] : i \in 1..Len(data)} |->
                     LET last == CHOOSE i \in 1..Len(data) :
                                   /\ data[i][1] = k
                                   /\ \A j \in (i + 1)..Len(data) : data[j][1] # k
                     IN  data[last][2]]]

SentimentLoadFromString(data_str) == DictOfRows(LexRows(data_str))

NoSentiment == [loaded |-> FALSE, map |-> [k \in {} |-> <<>>]]

---------------------------------------------------------------------------
(* AreaMap *)

Box(x0, x1, y0, y1) == [xmin |-> x0, xmax |-> x1, ymin |-> y0, ymax |-> y1]
Feature(i, b) == [id |-> i, box |-> b]

\* d[k] = v on an insertion-ordered dict: a present key keeps its place.
DictPut(d, k, v) ==
    IF \E i \in 1..Len(d) : d[i].id = k
    THEN [i \in 1..Len(d) |-> IF d[i].id = k THEN Feature(k, v) ELSE d[i]]
    ELSE Append(d, Feature(k, v))

\* The dict comprehension of load_from_string over json_data["features"].
RECURSIVE AreaLoadInto(_, _)
AreaLoadInto(d, features) ==
    IF features = <<>> THEN d
    ELSE AreaLoadInto(DictPut(d, Head(features).id, Head(features).box), Tail(features))

AreaLoadFromString(features) == AreaLoadInto(<<>>, features)

NoArea == [loaded |-> FALSE, map |-> <<>>]

\* InBox with xmax and ymax exclusive.
InBoxHalfOpen(b, c) == b.xmax > c[1] /\ c[1] >= b.xmin /\ b.ymax > c[2] /\ c[2] >= b.ymin

\* The lambda of area_mapper: all four bounds inclusive.
InBox(b, c) == b.xmax >= c[1] /\ c[1] >= b.xmin /\ b.ymax >= c[2] /\ c[2] >= b.ymin

\* area_mapper: the key of the first item of the filtered list, or "".
AreaMapper(coordinates, amap) ==
    LET potential_area == SelectSeq(amap, LAMBDA e : InBox(e.box, coordinates))
    IN  IF Len(potential_area) > 0 THEN potential_area[1].id ELSE ""

---------------------------------------------------------------------------
(* TwitterData *)

Row(v) == [id |-> "row", value |-> v]

\* self.data after each loader.  "list" is the list of load_from_string,
\* "gen" the generator of ijson.items(file, "rows.item.value"), "self" the
\* TwitterData object that load_from_file assigns from load_from_string's
\* return value.
DataOfLoadFromString(rows) ==
    [kind |-> "list", items |-> [i \in 1..Len(rows) |-> rows[i].value]]
DataOfLoadFromFile(rows) ==
    [kind |-> "self", items |-> <<>>]
DataOfLoadMassive(rows) ==
    [kind |-> "gen", items |-> [i \in 1..Len(rows) |-> rows[i]["value"]]]

NoData == [kind |-> "none", items |-> <<>>]

\* iter(self.data): a list and a generator are iterable, a TwitterData
\* (which defines __len__ only) and None are not.
Iterable(data) == data.kind \in {"list", "gen"}

---------------------------------------------------------------------------
(* TwitterPostFactory *)

\* The characters of rstrip("!,?.\u2019\u201d"); the two typographic quotes are
\* written q9 and qq.
StripChars == {"!", ",", "?", ".", "q9", "qq"}

\* The mappers a driver registers: "deployed" is the lambda of line 237,
\* "upper" is str.upper.
MapperIds == {"deployed", "upper"}
ApplyMapper(m, tok) ==
    IF m = "deployed" THEN Rstrip(Lower(tok), StripChars) ELSE Upper(tok)

\* ApplyFilter with every filter taken as bool.
ApplyFilterTruthy(f, tok, smap) == tok # <<>>

\* The filters a driver registers: "in_lexicon" is the lambda of line 238,
\* "nonempty" is bool.
FilterIds == {"in_lexicon", "nonempty"}
ApplyFilter(f, tok, smap) ==
    IF f = "in_lexicon" THEN tok \in DOMAIN smap ELSE tok # <<>>

\* for func in self.text_mappers: text = list(map(func, text))
RECURSIVE MapStages(_, _)
MapStages(mappers, text) ==
    IF mappers = <<>> THEN text
    ELSE MapStages(Tail(mappers), [i \in 1..Len(text) |-> ApplyMapper(Head(mappers), text[i])])

\* FilterStages with each filter run on the mapped list, the last one's
\* result kept.
FilterStagesLastWins(filters, text, smap) ==
    IF filters = <<>> THEN text
    ELSE SelectSeq(text, LAMBDA t : ApplyFilter(filters[Len(filters)], t, smap))

\* for func in self.text_filters: text = list(filter(func, text))
RECURSIVE FilterStages(_, _, _)
FilterStages(filters, text, smap) ==
    IF filters = <<>> THEN text
    ELSE FilterStages(Tail(filters),
                      SelectSeq(text, LAMBDA t : ApplyFilter(Head(filters), t, smap)),
                      smap)

\* sentiment_reducer: n += int(sentiment_map[i]) for each token in order;
\* the first absent token raises KeyError, the first weight int() rejects
\* raises ValueError.
RECURSIVE SentimentReducer(_, _, _)
SentimentReducer(text, smap, n) ==
    IF text = <<>> THEN [kind |-> "ok", val |-> n]
    ELSE IF Head(text) \notin DOMAIN smap THEN [kind |-> "KeyError", val |-> 0]
    ELSE IF ~PyInt(smap[Head(text)]).ok THEN [kind |-> "ValueError", val |-> 0]
    ELSE SentimentReducer(Tail(text), smap, n + PyInt(smap[Head(text)]).val)

Post(t, c) == [hasText |-> TRUE, text |-> t, hasCoords |-> TRUE, coordinates |-> c]
PostNoText(c) == [hasText |-> FALSE, text |-> <<>>, hasCoords |-> TRUE, coordinates |-> c]
PostNoCoordinates(t) == [hasText |-> TRUE, text |-> t, hasCoords |-> FALSE, coordinates |-> <<>>]

Outcome(k, a, s, t, r) == [kind |-> k, area |-> a, score |-> s, text |-> t, reduced |-> r]

\* Produce without the early return of lines 193 and 194.
ProduceNoDrop(data, fac, smap, amap) ==
    IF ~data.hasText THEN Outcome("KeyError", "", 0, <<>>, FALSE)
    ELSE
      LET text == FilterStages(fac.text_filters,
                               MapStages(fac.text_mappers, Split(data.text, SP)), smap)
      IN  IF ~data.hasCoords THEN Outcome("KeyError", "", 0, text, FALSE)
          ELSE
            LET a == AreaMapper(data.coordinates, amap)
                red == SentimentReducer(text, smap, 0)
            IN  IF red.kind = "ok" THEN Outcome("ok", a, red.val, text, TRUE)
                ELSE Outcome(red.kind, a, 0, text, TRUE)

\* produce.  kind "ok" is the return of line 199, "drop" the return of line
\* 194, any other kind the exception that leaves the method; text is
\* twitter_post.text when the method ends and reduced says whether
\* sentiment_reducer was called.
Produce(data, fac, smap, amap) ==
    IF ~data.hasText THEN Outcome("KeyError", "", 0, <<>>, FALSE)
    ELSE
      LET text == FilterStages(fac.text_filters,
                               MapStages(fac.text_mappers, Split(data.text, SP)), smap)
      IN  IF ~data.hasCoords THEN Outcome("KeyError", "", 0, text, FALSE)
          ELSE
            LET a == AreaMapper(data.coordinates, amap)
            IN  IF a = "" THEN Outcome("drop", "", 0, text, FALSE)
                ELSE
                  LET red == SentimentReducer(text, smap, 0)
                  IN  IF red.kind = "ok" THEN Outcome("ok", a, red.val, text, TRUE)
                      ELSE Outcome(red.kind, a, 0, text, TRUE)

NoFactory == [text_mappers |-> <<>>, text_filters |-> <<>>]
NoCall == [fn |-> "none", arg |-> <<>>]
NoOutcome == Outcome("none", "", 0, <<>>, FALSE)

---------------------------------------------------------------------------
(* The aggregation of __main__ *)

\* result = {k: 0 for k in area.map}
ResultInit(amap) == [k \in {amap[i].id : i \in 1..Len(amap)} |-> 0]

\* Accumulate as result[k] = result.get(k, 0) + v without the test of k.
AccumulateUnguarded(totals, k, v) ==
    IF k \in DOMAIN totals THEN [totals EXCEPT ![k] = @ + v] ELSE (k :> v) @@ totals

\* if k: result[k] += v
Accumulate(totals, k, v) ==
    IF k # "" THEN [totals EXCEPT ![k] = @ + v] ELSE totals

NoResult == [live |-> FALSE, totals |-> [k \in {} |-> 0]]

---------------------------------------------------------------------------
(* Inputs *)

\* Lexicon sources: "g<TAB>2<NL>b<TAB>-3" and variants.
LexScenario == <<"g", TAB, "2", NL, "b", TAB, "-", "3">>
LexNonInteger == <<"g", TAB, "2", NL, "b", TAB, "g">>
LexTrailingNewline == <<"g", TAB, "2", NL>>
LexUpperKey == <<"g", TAB, "2", NL, "G", TAB, "-", "3">>
LexEmptyKey == <<TAB, "2", NL, "g", TAB, "-", "3">>
LexAlphabet == {"g", "2", "-", TAB, NL}

Coord == 0..GridMax
Coords == Coord \X Coord

GridScenario == <<Feature("A", Box(0, 1, 0, 1))>>
GridShared == <<Feature("A", Box(0, 1, 0, 1)), Feature("B", Box(1, 2, 0, 1))>>
GridSameId == <<Feature("A", Box(0, 0, 0, 0)), Feature("A", Box(1, 2, 0, 1))>>

\* The boxes of the enumerated grids: every interval on one axis with the
\* full range or the same interval on the other.
Intervals == {<<lo, hi>> \in Coord \X Coord : lo < hi}
FullRange == <<0, GridMax>>
Boxes == {Box(i[1], i[2], j[1], j[2]) : <<i, j>> \in
            {p \in Intervals \X Intervals :
               p[1] = FullRange \/ p[2] = FullRange \/ p[1] = p[2]}}
Features == {Feature(i, b) : i \in {"A", "B"}, b \in Boxes}
Grids == UNION {[1..k -> Features] : k \in 0..MaxRegions}

TextGB == <<"g", SP, "b">>
TextUpper == <<"G", "!">>
MainPosts == {Post(TextGB, <<0, 0>>), Post(TextUpper, <<1, 1>>), Post(TextGB, <<2, 2>>),
              PostNoCoordinates(TextGB), PostNoText(<<0, 0>>)}
Docs == UNION {[1..k -> {Row(p) : p \in MainPosts}] : k \in 0..MaxRecords}

TextAlphabet == {"g", "G", "!", SP}
Texts == StringsUpTo(TextAlphabet, MaxTextLen)

Modes == {"file", "file_massive", "string", "string_massive"}

---------------------------------------------------------------------------
(* The state after construction: TwitterData(), SentimentMap(), AreaMap()  *)
(* hold nothing yet; the inputs are fixed for the run.                     *)

InitWith(lexicons, grids, docs, modes) ==
    /\ lexSrc \in lexicons
    /\ gridSrc \in grids
    /\ doc \in docs
    /\ mode \in modes
    /\ sentiment = NoSentiment
    /\ area = NoArea
    /\ tw = [data |-> NoData, len |-> 0, massive_file |-> "None"]
    /\ fileOpen = FALSE
    /\ factory = NoFactory
    /\ result = NoResult
    /\ pos = 0
    /\ lastIn = NoCall
    /\ lastOut = NoOutcome
    /\ pc = "load_tw"
    /\ err = ""

Init ==
    InitWith({LexScenario, LexNonInteger, LexTrailingNewline},
             {GridScenario, GridShared, GridSameId, <<>>}, Docs, Modes)

---------------------------------------------------------------------------
(* TwitterData's loaders (line 232 calls load_from_file_massive) *)

inputs == <<lexSrc, gridSrc, doc, mode>>

\* len is json_data["total_rows"], taken to be the number of rows.
\* load_from_file: load_from_string fills data and len, then self.data is
\* assigned load_from_string's return value, which is self.
LoadFromFile ==
    /\ pc = "load_tw" /\ mode = "file"
    /\ tw' = [tw EXCEPT !.data = DataOfLoadFromFile(doc), !.len = Len(doc)]
    /\ pc' = "load_sentiment"
    /\ UNCHANGED <<inputs, sentiment, area, fileOpen, factory, result, pos, lastIn, lastOut, err>>

\* load_from_file_massive: f is opened and handed to ijson; massive_file is
\* not assigned.
LoadFromFileMassive ==
    /\ pc = "load_tw" /\ mode = "file_massive"
    /\ fileOpen' = TRUE
    /\ tw' = [tw EXCEPT !.data = DataOfLoadMassive(doc)]
    /\ pc' = "load_sentiment"
    /\ UNCHANGED <<inputs, sentiment, area, factory, result, pos, lastIn, lastOut, err>>

LoadFromString ==
    /\ pc = "load_tw" /\ mode = "string"
    /\ tw' = [tw EXCEPT !.data = DataOfLoadFromString(doc), !.len = Len(doc)]
    /\ pc' = "load_sentiment"
    /\ UNCHANGED <<inputs, sentiment, area, fileOpen, factory, result, pos, lastIn, lastOut, err>>

\* load_from_string_massive on a file object the caller holds.
LoadFromStringMassive ==
    /\ pc = "load_tw" /\ mode = "string_massive"
    /\ tw' = [tw EXCEPT !.data = DataOfLoadMassive(doc)]
    /\ pc' = "load_sentiment"
    /\ UNCHANGED <<inputs, sentiment, area, fileOpen, factory, result, pos, lastIn, lastOut, err>>

---------------------------------------------------------------------------
(* SentimentMap().load_from_file and AreaMap().load_from_file *)

LoadSentiment ==
    /\ pc = "load_sentiment"
    /\ LET d == SentimentLoadFromString(lexSrc)
       IN  IF d.ok
           THEN /\ sentiment' = [loaded |-> TRUE, map |-> d.map]
                /\ pc' = "load_area"
                /\ err' = err
           ELSE /\ sentiment' = sentiment
                /\ pc' = "aborted"
                /\ err' = "ValueError"
    /\ UNCHANGED <<inputs, area, tw, fileOpen, factory, result, pos, lastIn, lastOut>>

LoadArea ==
    /\ pc = "load_area"
    /\ area' = [loaded |-> TRUE, map |-> AreaLoadFromString(gridSrc)]
    /\ pc' = "configure"
    /\ UNCHANGED <<inputs, sentiment, tw, fileOpen, factory, result, pos, lastIn, lastOut, err>>

---------------------------------------------------------------------------
(* The factory's configuration *)

AddTextMapper(m) == factory' = [factory EXCEPT !.text_mappers = Append(@, m)]
AddTextFilter(f) == factory' = [factory EXCEPT !.text_filters = Append(@, f)]

\* Lines 237 and 238.
MainAddMapper ==
    /\ pc = "configure" /\ factory = NoFactory
    /\ AddTextMapper("deployed")
    /\ UNCHANGED <<inputs, sentiment, area, tw, fileOpen, result, pos, lastIn, lastOut, pc, err>>

MainAddFilter ==
    /\ pc = "configure"
    /\ factory.text_mappers = <<"deployed">> /\ factory.text_filters = <<>>
    /\ AddTextFilter("in_lexicon")
    /\ pc' = "init_result"
    /\ UNCHANGED <<inputs, sentiment, area, tw, fileOpen, result, pos, lastIn, lastOut, err>>

---------------------------------------------------------------------------
(* Lines 242 to 252 *)

InitResult ==
    /\ pc = "init_result"
    /\ result' = [live |-> TRUE, totals |-> ResultInit(area.map)]
    /\ pc' = "loop"
    /\ UNCHANGED <<inputs, sentiment, area, tw, fileOpen, factory, pos, lastIn, lastOut, err>>

\* for item in tw.data: iter() of an object that is not iterable raises.
LoopNotIterable ==
    /\ pc = "loop" /\ ~Iterable(tw.data)
    /\ pc' = "aborted"
    /\ err' = "TypeError"
    /\ UNCHANGED <<inputs, sentiment, area, tw, fileOpen, factory, result, pos, lastIn, lastOut>>

\* One iteration: produce, then "if k: result[k] += v"; an exception of
\* produce leaves the loop and the program.
LoopStep ==
    /\ pc = "loop" /\ Iterable(tw.data) /\ pos < Len(tw.data.items)
    /\ LET item == tw.data.items[pos + 1]
           out == Produce(item, factory, sentiment.map, area.map)
       IN  /\ pos' = pos + 1
           /\ lastIn' = [fn |-> "produce", arg |-> item]
           /\ lastOut' = out
           /\ IF out.kind \in {"ok", "drop"}
              THEN /\ result' = [result EXCEPT !.totals = Accumulate(@, out.area, out.score)]
                   /\ pc' = pc
                   /\ err' = err
              ELSE /\ result' = result
                   /\ pc' = "aborted"
                   /\ err' = out.kind
    /\ UNCHANGED <<inputs, sentiment, area, tw, fileOpen, factory>>

LoopExhausted ==
    /\ pc = "loop" /\ Iterable(tw.data) /\ pos = Len(tw.data.items)
    /\ pc' = "close"
    /\ UNCHANGED <<inputs, sentiment, area, tw, fileOpen, factory, result, pos, lastIn, lastOut, err>>

\* tw.close(): closes massive_file if it is set.
Close ==
    /\ pc = "close"
    /\ fileOpen' = IF tw.massive_file # "None" THEN FALSE ELSE fileOpen
    /\ pc' = "done"
    /\ UNCHANGED <<inputs, sentiment, area, tw, factory, result, pos, lastIn, lastOut, err>>

Next ==
    \/ LoadFromFile
    \/ LoadFromFileMassive
    \/ LoadFromString
    \/ LoadFromStringMassive
    \/ LoadSentiment
    \/ LoadArea
    \/ MainAddMapper
    \/ MainAddFilter
    \/ InitResult
    \/ LoopNotIterable
    \/ LoopStep
    \/ LoopExhausted
    \/ Close

Spec == Init /\ [][Next]_vars

---------------------------------------------------------------------------
(* The functions called on their own, on loaded maps.  They are pure, so    *)
(* one call per run shows all they do.                                     *)

\* area_mapper(c, area) for any coordinate.
ClassifyCall ==
    /\ area.loaded /\ lastIn = NoCall
    /\ \E c \in Coords :
         /\ lastIn' = [fn |-> "area_mapper", arg |-> c]
         /\ lastOut' = Outcome("ok", AreaMapper(c, area.map), 0, <<>>, FALSE)
    /\ UNCHANGED <<inputs, sentiment, area, tw, fileOpen, factory, result, pos, pc, err>>

\* sentiment_reducer([k], sentiment) for any key of the loaded lexicon.
ReduceCall ==
    /\ sentiment.loaded /\ lastIn = NoCall
    /\ \E k \in DOMAIN sentiment.map :
         LET red == SentimentReducer(<<k>>, sentiment.map, 0)
         IN  /\ lastIn' = [fn |-> "sentiment_reducer", arg |-> <<k>>]
             /\ lastOut' = Outcome(red.kind, "", red.val, <<k>>, TRUE)
    /\ UNCHANGED <<inputs, sentiment, area, tw, fileOpen, factory, result, pos, pc, err>>

\* add_text_mapper / add_text_filter with any mapper or filter.
Stages == Len(factory.text_mappers) + Len(factory.text_filters)

AnyAddMapper ==
    /\ pc = "configure" /\ lastIn = NoCall /\ Stages < MaxStages
    /\ \E m \in MapperIds : AddTextMapper(m)
    /\ UNCHANGED <<inputs, sentiment, area, tw, fileOpen, result, pos, lastIn, lastOut, pc, err>>

AnyAddFilter ==
    /\ pc = "configure" /\ lastIn = NoCall /\ Stages < MaxStages
    /\ \E f \in FilterIds : AddTextFilter(f)
    /\ UNCHANGED <<inputs, sentiment, area, tw, fileOpen, result, pos, lastIn, lastOut, pc, err>>

\* factory.produce(data) for any post.
ProduceCall ==
    /\ pc = "configure" /\ lastIn = NoCall
    /\ \E t \in Texts, c \in {<<0, 0>>, <<GridMax, GridMax>>} :
         /\ lastIn' = [fn |-> "produce", arg |-> Post(t, c)]
         /\ lastOut' = Produce(Post(t, c), factory, sentiment.map, area.map)
    /\ UNCHANGED <<inputs, sentiment, area, tw, fileOpen, factory, result, pos, pc, err>>

InitClassify == InitWith({LexScenario}, Grids, {<<>>}, {"file_massive"})
NextClassify == LoadFromFileMassive \/ LoadSentiment \/ LoadArea \/ ClassifyCall
SpecClassify == InitClassify /\ [][NextClassify]_vars

InitLexicon ==
    InitWith(StringsUpTo(LexAlphabet, MaxLexLen), {GridScenario}, {<<>>}, {"file_massive"})
NextLexicon == LoadFromFileMassive \/ LoadSentiment \/ ReduceCall
SpecLexicon == InitLexicon /\ [][NextLexicon]_vars

InitProduce ==
    InitWith({LexUpperKey, LexEmptyKey, LexNonInteger}, {GridScenario}, {<<>>},
             {"file_massive"})
NextProduce ==
    \/ LoadFromFileMassive
    \/ LoadSentiment
    \/ LoadArea
    \/ AnyAddMapper
    \/ AnyAddFilter
    \/ ProduceCall
SpecProduce == InitProduce /\ [][NextProduce]_vars

---------------------------------------------------------------------------
(* Properties *)

\* The claim's containment: xmin <= x <= xmax and ymin <= y <= ymax.
Contains(b, c) == b.xmin <= c[1] /\ c[1] <= b.xmax /\ b.ymin <= c[2] /\ c[2] <= b.ymax

\* The id of the first feature, in the order of the source, whose box
\* contains c; "" when none does.
FirstDefined(features, c) ==
    LET hits == {i \in 1..Len(features) : Contains(features[i].box, c)}
    IN  IF hits = {} THEN ""
        ELSE features[CHOOSE i \in hits : \A j \in hits : i <= j].id

\* The same over the regions as AreaMap keeps them: one per id, at the place
\* of the id's first feature, with the box of the id's last feature.
FirstKept(features, c) ==
    LET n == Len(features)
        lastOf(i) == CHOOSE j \in 1..n :
                       /\ features[j].id = features[i].id
                       /\ \A k \in (j + 1)..n : features[k].id # features[i].id
        hits == {i \in 1..n : /\ \A j \in 1..(i - 1) : features[j].id # features[i].id
                              /\ Contains(features[lastOf(i)].box, c)}
    IN  IF hits = {} THEN ""
        ELSE features[CHOOSE i \in hits : \A j \in hits : i <= j].id

DistinctIds(features) ==
    \A i, j \in 1..Len(features) : features[i].id = features[j].id => i = j

RECURSIVE Thread(_, _)
Thread(mappers, tok) ==
    IF mappers = <<>> THEN tok ELSE Thread(Tail(mappers), ApplyMapper(Head(mappers), tok))

Accepted(filters, tok, smap) ==
    \A i \in 1..Len(filters) : ApplyFilter(filters[i], tok, smap)

HasWeight(tok, smap) == tok \in DOMAIN smap /\ PyInt(smap[tok]).ok

\* The sum of the weights of the tokens of text that every filter accepts.
ExpectedScore(text, fac, smap) ==
    LET raw == Split(text, SP)
        tok(i) == Thread(fac.text_mappers, raw[i])
    IN  SumSeq([i \in 1..Len(raw) |->
                  IF Accepted(fac.text_filters, tok(i), smap) /\ HasWeight(tok(i), smap)
                  THEN PyInt(smap[tok(i)]).val ELSE 0])

AllAcceptedHaveWeight(text, fac, smap) ==
    LET raw == Split(text, SP)
    IN  \A i \in 1..Len(raw) :
          Accepted(fac.text_filters, Thread(fac.text_mappers, raw[i]), smap)
            => HasWeight(Thread(fac.text_mappers, raw[i]), smap)

\* C2: for a record that classifies into a region, produce returns the sum
\* of the lexicon weights of exactly the tokens that, split on single spaces
\* and passed through every mapper in registration order, every filter
\* accepts; it returns whenever each such token has an integer weight.
C2_ScoreIsSumOfAcceptedTokens ==
    (lastIn.fn = "produce" /\ FirstKept(gridSrc, lastIn.arg.coordinates) # "") =>
        IF AllAcceptedHaveWeight(lastIn.arg.text, factory, sentiment.map)
        THEN /\ lastOut.kind = "ok"
             /\ lastOut.score = ExpectedScore(lastIn.arg.text, factory, sentiment.map)
        ELSE lastOut.kind \in {"KeyError", "ValueError"}

\* A scored record with a mapper and both filters registered, holding an
\* empty token that one filter accepts and the other rejects.
C2_Witness ==
    /\ lastIn.fn = "produce" /\ lastOut.kind = "ok" /\ lastOut.score # 0
    /\ Len(factory.text_mappers) >= 1
    /\ {factory.text_filters[i] : i \in 1..Len(factory.text_filters)} = FilterIds
    /\ <<>> \in DOMAIN sentiment.map
    /\ \E i \in 1..Len(Split(lastIn.arg.text, SP)) : Split(lastIn.arg.text, SP)[i] = <<>>

\* C3: from the initialisation of result on, its keys are exactly the region
\* ids of the grid.
C3_ResultKeysAreRegionIds ==
    result.live => DOMAIN result.totals = {gridSrc[i].id : i \in 1..Len(gridSrc)}

\* The end of a run over two regions, one with a total and one left at zero.
C3_Witness ==
    /\ pc = "done" /\ result.live
    /\ \E a, b \in DOMAIN result.totals : result.totals[a] # 0 /\ result.totals[b] = 0

WellFormed(p) == p.hasText /\ p.hasCoords

\* C4: a step of the loop on a record with text whose coordinate lies in no
\* region yields the drop signal, leaves every total as it was and stays in
\* the loop.
C4_UnclassifiedLeavesTotals ==
    [][(/\ pc = "loop" /\ Iterable(tw.data) /\ pos < Len(tw.data.items)
        /\ WellFormed(tw.data.items[pos + 1])
        /\ \A i \in 1..Len(gridSrc) :
             ~Contains(gridSrc[i].box, tw.data.items[pos + 1].coordinates))
       => (/\ lastOut'.kind = "drop" /\ lastOut'.area = "" /\ lastOut'.score = 0
           /\ result' = result /\ pc' = "loop" /\ pos' = pos + 1)]_vars

\* A dropped record whose text scores, after a record that was counted and
\* before another one.
C4_Witness ==
    /\ pc = "loop" /\ lastIn.fn = "produce" /\ lastOut.kind = "drop"
    /\ lastIn.arg.text = TextGB
    /\ pos = 2 /\ Len(doc) = 3
    /\ \E k \in DOMAIN result.totals : result.totals[k] # 0

\* C5: a malformed record does not end the run.
C5_MalformedRecordRecovered ==
    ~(pc = "aborted" /\ lastIn.fn = "produce" /\ ~WellFormed(lastIn.arg)
      /\ lastOut.kind = "KeyError")

\* C6: no run ends with the handle of load_from_file_massive open.
C6_HandleClosedAtExit ==
    pc \in {"done", "aborted"} => ~fileOpen

\* C8: whichever loader ran, iterating TwitterData.data yields the value of
\* each row of the document, in order.
C8_LoadersYieldSameRecords ==
    pc # "load_tw" =>
        /\ Iterable(tw.data)
        /\ tw.data.items = [i \in 1..Len(doc) |-> doc[i].value]

\* C9: a lexicon whose source has a row without exactly two tab-separated
\* fields, or with a weight that is no integer, is never loaded, and the
\* reducer never meets a weight that is no integer.
C9_MalformedLexiconRejected ==
    /\ sentiment.loaded =>
         \A i \in 1..Len(Split(lexSrc, NL)) :
           LET fields == Split(Split(lexSrc, NL)[i], TAB)
           IN  Len(fields) = 2 /\ PyInt(fields[2]).ok
    /\ lastIn.fn = "sentiment_reducer" => lastOut.kind # "ValueError"

Deployed ==
    factory.text_mappers = <<"deployed">> /\ factory.text_filters = <<"in_lexicon">>

\* C10: under the deployed configuration every token handed to
\* sentiment_reducer is a key of the lexicon, so its lookup never fails.
C10_ReducedTokensAreKeys ==
    (lastIn.fn = "produce" /\ Deployed /\ lastOut.reduced) =>
        /\ \A i \in 1..Len(lastOut.text) : lastOut.text[i] \in DOMAIN sentiment.map
        /\ lastOut.kind # "KeyError"

\* A classified record under the deployed configuration whose text holds an
\* empty token and a token that is no key of the lexicon.
C10_Witness ==
    /\ lastIn.fn = "produce" /\ Deployed /\ lastOut.reduced
    /\ LET raw == Split(lastIn.arg.text, SP)
       IN  /\ \E i \in 1..Len(raw) : raw[i] = <<>>
           /\ \E i \in 1..Len(raw) : Thread(factory.text_mappers, raw[i]) \notin DOMAIN sentiment.map
           /\ Len(lastOut.text) >= 1

=============================================================================
